---- MODULE Spec2Model ----
(***************************************************************************)
(* A model of golloom, a Go client of the Ollama HTTP API.                 *)
(*                                                                         *)
(* A call of a Client method is a small process: it is invoked with its    *)
(* arguments (Invoke: local validation, JSON encoding of the payload and   *)
(* construction of the request), hands the request to HTTPClient.Do        *)
(* (Do), receives a transport error or a response (Respond), and, for the  *)
(* status-stream operations, runs the decode loop one object at a time     *)
(* (DecodeStep) until it returns (FinishStream).                           *)
(***************************************************************************)
EXTENDS Integers, Sequences, FiniteSets, TLC

VARIABLES
    client,   \* the Client struct: BaseURL and HTTPClient.Timeout
    made,     \* the call of NewClient that made it: its arguments and its error
    used,     \* whether an operation has run to its return on the Client before
    pc,       \* pc[p]: where call p stands
    op,       \* op[p]: the method call p runs
    args,     \* args[p]: its arguments
    req,      \* req[p]: the *http.Request it built
    nreq,     \* nreq[p]: how many times call p has handed a request to HTTPClient.Do
    resp,     \* resp[p]: what HTTPClient.Do returned to call p
    pos,      \* pos[p]: how many stream elements call p's json.Decoder has consumed
    msgs,     \* msgs[p]: the msgs slice of sendStatusStreamRequest
    ret       \* ret[p]: what the call returned

vars == <<client, made, used, pc, op, args, req, nreq, resp, pos, msgs, ret>>

\* the Client and what is remembered of its past
clientVars == <<client, made, used>>

(***************************************************************************)
(* Bounds of the model.                                                    *)
(***************************************************************************)
\* the longest response body enumerated with every mix of tokens
MaxShortBody == 2
\* long bodies hold maxMessages - NearLimit .. maxMessages + NearLimit status objects
NearLimit == 1
\* the longest digest enumerated
MaxDigestLen == 2
\* the longest []interface{} Context enumerated
MaxContextLen == 2
\* bytes one element of a response body takes on the wire
TokBytes == 16
\* NewClient is given every number of minutes up to this one
MaxSmallMinutes == 60
\* and the numbers of minutes this close to the largest whose nanoseconds fit int64
EdgeWidth == 2

(***************************************************************************)
(* Constants of the program.                                               *)
(***************************************************************************)
maxMessages   == 1000
limitedBodyMax == 512
StatusOK      == 200
StatusCreated == 201
StatusNotFound == 404

Calls == {1, 2}

Min(a, b) == IF a < b THEN a ELSE b

(***************************************************************************)
(* Strings.  A string whose characters matter (a digest, a path segment)   *)
(* is a sequence of pieces; a piece is one character, or a literal of the  *)
(* source that holds none of the characters "/", ".", "%".                 *)
(***************************************************************************)
Chars == {"a", ".", "/", "%"}

RECURSIVE SeqsUpTo(_, _)
SeqsUpTo(S, n) ==
    IF n = 0 THEN {<<>>}
    ELSE LET shorter == SeqsUpTo(S, n - 1)
         IN  shorter \cup {Append(s, x) : s \in {t \in shorter : Len(t) = n - 1}, x \in S}

\* strings.Contains
Contains(s, sub) ==
    \E i \in 1..(Len(s) - Len(sub) + 1) : SubSeq(s, i, i + Len(sub) - 1) = sub

\* url.PathEscape: escapes what may not stand in one path segment
PathEscapeChar(c) ==
    CASE c = "%" -> <<"%", "2", "5">>
      [] c = "/" -> <<"%", "2", "F">>
      [] OTHER   -> <<c>>

RECURSIVE PathEscape(_)
PathEscape(s) ==
    IF s = <<>> THEN <<>> ELSE PathEscapeChar(Head(s)) \o PathEscape(Tail(s))

\* URL.EscapedPath of a URL without RawPath: "/" separates segments and is kept,
\* "%" is escaped again
EscapeSegChar(c) == IF c = "%" THEN <<"%", "2", "5">> ELSE <<c>>

RECURSIVE EscapeSeg(_)
EscapeSeg(s) ==
    IF s = <<>> THEN <<>> ELSE EscapeSegChar(Head(s)) \o EscapeSeg(Tail(s))

EscapedPath(path) == [i \in 1..Len(path) |-> EscapeSeg(path[i])]

\* the inverse, URL.setPath's unescape of a path
RECURSIVE UnescapeSeg(_)
UnescapeSeg(s) ==
    IF s = <<>> THEN <<>>
    ELSE IF Len(s) >= 3 /\ SubSeq(s, 1, 3) = <<"%", "2", "5">>
         THEN <<"%">> \o UnescapeSeg(SubSeq(s, 4, Len(s)))
         ELSE <<Head(s)>> \o UnescapeSeg(Tail(s))

UnescapePath(path) == [i \in 1..Len(path) |-> UnescapeSeg(path[i])]

\* a path is the sequence of its segments: "/api/pull" is <<<<"api">>, <<"pull">>>>,
\* and a trailing "/" is an empty last segment
Split(s) ==
    LET cuts == {0} \cup {i \in 1..Len(s) : s[i] = "/"} \cup {Len(s) + 1}
        next(i) == CHOOSE j \in cuts : j > i /\ \A k \in cuts : k > i => j <= k
        RECURSIVE from(_)
        from(i) == IF i > Len(s) THEN <<>>
                   ELSE <<SubSeq(s, i + 1, next(i) - 1)>> \o from(next(i))
    IN  from(0)

\* resolvePath's removal of "." and ".." segments from an absolute path
RECURSIVE RemoveDots(_, _)
RemoveDots(done, rest) ==
    IF rest = <<>> THEN done
    ELSE LET e == Head(rest)
             last == Len(rest) = 1
         IN  IF e = <<".">>
             THEN RemoveDots(IF last THEN Append(done, <<>>) ELSE done, Tail(rest))
             ELSE IF e = <<".", ".">>
             THEN LET up == IF done = <<>> THEN <<>> ELSE SubSeq(done, 1, Len(done) - 1)
                  IN  RemoveDots(IF last THEN Append(up, <<>>) ELSE up, Tail(rest))
             ELSE RemoveDots(Append(done, e), Tail(rest))

\* path.Clean of an absolute path: as RemoveDots, and empty segments and the
\* trailing slash go
RECURSIVE Clean(_, _)
Clean(done, rest) ==
    IF rest = <<>> THEN done
    ELSE LET e == Head(rest)
         IN  IF e = <<>> \/ e = <<".">> THEN Clean(done, Tail(rest))
             ELSE IF e = <<".", ".">>
             THEN Clean(IF done = <<>> THEN <<>> ELSE SubSeq(done, 1, Len(done) - 1),
                        Tail(rest))
             ELSE Clean(Append(done, e), Tail(rest))

\* path.Join("/api/blobs", digest)
PathJoin(dir, name) == Clean(<<>>, dir \o Split(name))

(***************************************************************************)
(* The Client and its URLs.                                                *)
(***************************************************************************)
BaseURLs == {[host |-> "h1", path |-> <<>>], [host |-> "h2", path |-> <<<<"v1">>>>]}

\* what NewClient may be given as baseURL: text url.Parse accepts, or not
NoURL == [host |-> "none", path |-> <<>>]
RawURLs == {[ok |-> TRUE, url |-> b] : b \in BaseURLs} \cup {[ok |-> FALSE, url |-> NoURL]}

(***************************************************************************)
(* time.Duration is an int64 count of nanoseconds.  A 64-bit value is the  *)
(* sequence of its 8 bytes, lowest first, in two's complement; arithmetic  *)
(* on it keeps the low 64 bits.                                            *)
(***************************************************************************)
Radix == 2^8
DurationBytes == 64 \div 8

\* the k lowest bytes of a natural number
RECURSIVE Digits(_, _)
Digits(n, k) == IF k = 0 THEN <<>> ELSE <<n % Radix>> \o Digits(n \div Radix, k - 1)

Dur(n) == Digits(n, DurationBytes)

\* the sum of the byte products that fall on byte i of a product
RECURSIVE ColSum(_, _, _, _)
ColSum(a, b, i, j) ==
    IF j > Len(a) THEN 0
    ELSE (IF i - j + 1 >= 1 /\ i - j + 1 <= Len(b) THEN a[j] * b[i - j + 1] ELSE 0)
         + ColSum(a, b, i, j + 1)

\* bytes i..k of the product of a and b, given the carry into byte i
RECURSIVE MulFrom(_, _, _, _, _)
MulFrom(a, b, i, carry, k) ==
    IF i > k THEN <<>>
    ELSE LET t == carry + ColSum(a, b, i, 1)
         IN  <<t % Radix>> \o MulFrom(a, b, i + 1, t \div Radix, k)

\* a * b on int64: the low 64 bits of the product
DurationMul(a, b) == MulFrom(a, b, 1, 0, DurationBytes)

\* the constants of package time
Microsecond == DurationMul(Dur(1000), Dur(1))
Millisecond == DurationMul(Dur(1000), Microsecond)
Second == DurationMul(Dur(1000), Millisecond)

\* Minute with a fault: the unit is the second
MinuteAsSecond == Second

Minute == DurationMul(Dur(60), Second)

NoClient == [BaseURL |-> NoURL, Timeout |-> Dur(0), nil |-> TRUE]

\* NewClient(baseURL, minutes): the Client and the error
NewClient(raw, minutes) ==
    IF ~raw.ok
    THEN [client |-> NoClient, err |-> [kind |-> "parse"]]
    ELSE [client |-> [BaseURL |-> raw.url, Timeout |-> DurationMul(minutes, Minute),
                      nil |-> FALSE],
          err |-> [kind |-> "nil"]]

\* the minutes of the examples
ExampleMinutes == 12

\* the record of a call of NewClient
Made(raw, minutes) == [baseURL |-> raw, minutes |-> minutes, err |-> NewClient(raw, minutes).err]

\* c.BaseURL.ResolveReference(rel) for a rel that holds an absolute path only,
\* then u.String(): the base's host, the reference's path without dot segments
ResolveReference(base, relPath) ==
    [host |-> base.host,
     path |-> UnescapePath(RemoveDots(<<>>, EscapedPath(relPath)))]

URLString(u) == [host |-> u.host, path |-> EscapedPath(u.path)]

(***************************************************************************)
(* The operations: which helper sends each, its HTTP method, its endpoint. *)
(***************************************************************************)
StreamOps == {"PullModel", "PushModel", "CopyModel", "DeleteModel", "CreateModel"}
JsonOps   == {"Generate", "Embed", "FetchModelInfo"}
GetOps    == {"Version", "ListModels", "ProcessStatus"}
BlobOps   == {"CheckBlobExists", "PushBlob"}
Ops       == StreamOps \cup JsonOps \cup GetOps \cup BlobOps

\* the literal given as the method of the request
MethodOf(o) ==
    CASE o \in GetOps          -> "GET"
      [] o = "CheckBlobExists" -> "HEAD"
      [] OTHER                 -> "POST"

\* the literal of rel := &url.URL{Path: ...} of the operations with a fixed endpoint
EndpointOf(o) ==
    CASE o = "PullModel"      -> <<<<"api">>, <<"pull">>>>
      [] o = "PushModel"      -> <<<<"api">>, <<"push">>>>
      [] o = "CopyModel"      -> <<<<"api">>, <<"copy">>>>
      [] o = "DeleteModel"    -> <<<<"api">>, <<"delete">>>>
      [] o = "CreateModel"    -> <<<<"api">>, <<"create">>>>
      [] o = "Generate"       -> <<<<"api">>, <<"generate">>>>
      [] o = "Embed"          -> <<<<"api">>, <<"embed">>>>
      [] o = "FetchModelInfo" -> <<<<"api">>, <<"show">>>>
      [] o = "Version"        -> <<<<"api">>, <<"version">>>>
      [] o = "ListModels"     -> <<<<"api">>, <<"tags">>>>
      [] o = "ProcessStatus"  -> <<<<"api">>, <<"ps">>>>

\* rel.Path of an operation called with arguments a
RelPath(o, a) ==
    CASE o = "CheckBlobExists" -> <<<<"api">>, <<"blobs">>, PathEscape(a.digest)>>
      [] o = "PushBlob"        -> PathJoin(<<<<"api">>, <<"blobs">>>>, a.digest)
      [] OTHER                 -> EndpointOf(o)

(***************************************************************************)
(* Arguments.  One record shape for every operation; an operation reads    *)
(* its own fields.  ctx is whether the context is non-nil, encodable       *)
(* whether json.Encoder.Encode accepts the payload (a payload holding an   *)
(* interface{} value may hold a channel or a NaN).                         *)
(***************************************************************************)
Models == {"m1", "m2"}

\* the dynamic type of PromptInfo.Format
FormatTypes == {"nil", "string", "map", "int", "slice"}

\* the dynamic type of an element of a []interface{}
ElemTypes == {"int", "string"}

\* the dynamic type and value of PromptInfo.Context
Contexts ==
    {[type |-> t, elems |-> <<>>] : t \in {"nil", "ints", "string", "map"}}
    \cup {[type |-> "ifaces", elems |-> e] : e \in SeqsUpTo(ElemTypes, MaxContextLen)}

Digests == SeqsUpTo(Chars, MaxDigestLen)

NoArgs ==
    [model |-> "m1", dest |-> "m1", ctx |-> TRUE, encodable |-> TRUE,
     format |-> "nil", context |-> [type |-> "nil", elems |-> <<>>], digest |-> <<>>]

\* the operations whose payload holds an interface{} value
OpenPayloadOps == {"CreateModel", "Generate", "Embed"}

ArgsOf(o) ==
    LET withCtx == {[NoArgs EXCEPT !.ctx = c] : c \in BOOLEAN}
        withModel == {[a EXCEPT !.model = m] : a \in withCtx, m \in Models}
        withEnc == {[a EXCEPT !.encodable = e] : a \in withModel, e \in BOOLEAN}
    IN  CASE o \in GetOps -> withCtx
          [] o \in BlobOps -> {[a EXCEPT !.digest = d] : a \in withCtx, d \in Digests}
          [] o = "CopyModel" -> {[a EXCEPT !.dest = m] : a \in withModel, m \in Models}
          [] o = "Generate" ->
               {[a EXCEPT !.format = f, !.context = c] :
                    a \in {b \in withEnc : b.model = "m1"}, f \in FormatTypes, c \in Contexts}
          [] o \in OpenPayloadOps -> withEnc
          [] OTHER -> withModel

(***************************************************************************)
(* Errors and results are records told apart by kind.                      *)
(***************************************************************************)
NilErr == [kind |-> "nil"]
NilRes == [kind |-> "nil"]

\* PromptInfo.ValidatePromptInfo
ValidateFormat(a) ==
    IF a.format # "nil" /\ a.format \notin {"string", "map"}
    THEN [kind |-> "invalid type for Format field"]
    ELSE NilErr

NonInts(c) == {i \in 1..Len(c.elems) : c.elems[i] # "int"}

\* ValidateContext with a fault: the loop does not return at the first element
\* that is no int, and the last such index is reported
ValidateContextLastIndex(a) ==
    LET c == a.context
    IN  CASE c.type = "nil"  -> NilErr
          [] c.type = "ints" -> NilErr
          [] c.type = "ifaces" ->
               IF NonInts(c) = {} THEN NilErr
               ELSE [kind |-> "invalid type for Context at index",
                     idx |-> (CHOOSE i \in NonInts(c) : \A j \in NonInts(c) : i >= j) - 1]
          [] OTHER -> [kind |-> "invalid type for Context field"]

ValidateContext(a) ==
    LET c == a.context
    IN  CASE c.type = "nil"  -> NilErr
          [] c.type = "ints" -> NilErr
          [] c.type = "ifaces" ->
               IF NonInts(c) = {} THEN NilErr
               ELSE [kind |-> "invalid type for Context at index",
                     \* the range loop returns at the first element that is no int;
                     \* Go counts from 0
                     idx |-> (CHOOSE i \in NonInts(c) : \A j \in NonInts(c) : i <= j) - 1]
          [] OTHER -> [kind |-> "invalid type for Context field"]

\* ValidatePromptInfo with a fault: Context is checked before Format
ValidateContextFirst(a) ==
    IF ValidateContext(a).kind # "nil" THEN ValidateContext(a) ELSE ValidateFormat(a)

ValidatePromptInfo(a) ==
    IF ValidateFormat(a).kind # "nil" THEN ValidateFormat(a) ELSE ValidateContext(a)

\* InvalidDigest with a fault: ".." is not looked for
InvalidDigestSlashOnly(d) == Contains(d, <<"/">>)

\* CheckBlobExists's test of the digest
InvalidDigest(d) == Contains(d, <<"/">>) \/ Contains(d, <<".", ".">>)

\* LocalCheck with a fault: Generate does not validate
LocalCheckBlobOnly(o, a) ==
    IF o = "CheckBlobExists" /\ InvalidDigest(a.digest)
    THEN [kind |-> "invalid digest", digest |-> a.digest]
    ELSE NilErr

\* what an operation checks before it builds anything
LocalCheck(o, a) ==
    CASE o = "Generate" -> ValidatePromptInfo(a)
      [] o = "CheckBlobExists" ->
           IF InvalidDigest(a.digest) THEN [kind |-> "invalid digest", digest |-> a.digest]
           ELSE NilErr
      [] OTHER -> NilErr

\* the JSON payload of the request
Payload(o, a) ==
    CASE o \in {"PullModel", "PushModel", "DeleteModel", "CreateModel"} ->
           [kind |-> "json", model |-> a.model]
      [] o = "CopyModel" -> [kind |-> "json", source |-> a.model, destination |-> a.dest]
      [] o \in {"Embed", "FetchModelInfo"} -> [kind |-> "json", model |-> a.model]
      [] o = "Generate" ->
           [kind |-> "json", model |-> a.model, format |-> a.format, context |-> a.context]
      [] o = "PushBlob" -> [kind |-> "file"]
      [] OTHER -> [kind |-> "none"]

ContentTypeOf(o) ==
    CASE o \in StreamOps \cup JsonOps -> "application/json"
      [] o = "PushBlob" -> "application/octet-stream"
      [] OTHER -> "none"

\* json.NewEncoder(buf).Encode(body) of the helpers that send a JSON payload
EncodeErr(o, a) ==
    IF o \in StreamOps \cup JsonOps /\ ~a.encodable
    THEN [kind |-> "json: unsupported value"] ELSE NilErr

\* http.NewRequestWithContext: fails on a nil context
NewRequest(c, o, a) ==
    IF ~a.ctx THEN [kind |-> "nil"]
    ELSE [kind |-> "request", method |-> MethodOf(o),
          url |-> URLString(ResolveReference(c.BaseURL, RelPath(o, a))),
          ctype |-> ContentTypeOf(o), body |-> Payload(o, a)]

(***************************************************************************)
(* Responses.  A body is the sequence of the top-level elements a          *)
(* json.Decoder meets in it: a well-formed status object, text that does   *)
(* not decode into the target, or a stray "]" or "}" (at which             *)
(* Decoder.More reports false).  A status is named by a number.            *)
(*                                                                         *)
(* The state holds a body as [head, run]: the elements of head, then run   *)
(* status objects, each with its place in the body as its status.          *)
(***************************************************************************)
Obj(st) == [t |-> "obj", status |-> st]
Bad     == [t |-> "bad", status |-> 0]
Close   == [t |-> "close", status |-> 0]

Tokens == {Obj(1), Obj(2), Bad, Close}

EmptyBody == [head |-> <<>>, run |-> 0]

\* the number of elements of a body, and its i-th element
BodyLen(b) == Len(b.head) + b.run
BodyAt(b, i) == IF i <= Len(b.head) THEN b.head[i] ELSE Obj(i)

\* the first k elements of a body
BodyTake(b, k) == [i \in 1..k |-> BodyAt(b, i)]

Bodies ==
    {[head |-> h, run |-> 0] : h \in SeqsUpTo(Tokens, MaxShortBody)}
    \cup {[head |-> <<>>, run |-> n] :
             n \in (maxMessages - NearLimit)..(maxMessages + NearLimit)}

Statuses == {199, 200, 201, 299, 300, 404, 500}

TransportErr == [kind |-> "transport", status |-> 0, body |-> EmptyBody]

\* what HTTPClient.Do may return for a request of operation o (the response to a
\* HEAD request has no body)
Responses(o) ==
    {TransportErr}
    \cup {[kind |-> "response", status |-> st, body |-> b] :
             st \in Statuses, b \in IF MethodOf(o) = "HEAD" THEN {EmptyBody} ELSE Bodies}

ByteLen(body) == BodyLen(body) * TokBytes

\* the first n bytes of a body: its whole elements and the bytes of a cut one
BytePrefix(body, n) == [toks |-> BodyTake(body, n \div TokBytes), rem |-> n % TokBytes]

\* io.ReadAll(resp.Body)
ReadAll(body) == BytePrefix(body, ByteLen(body))

\* ReadLimited with a fault: no limit
ReadUnlimited(body) == BytePrefix(body, ByteLen(body))

\* io.ReadAll(io.LimitReader(resp.Body, 512))
ReadLimited(body) == BytePrefix(body, Min(ByteLen(body), limitedBodyMax))

\* resp.StatusCode < 200 || resp.StatusCode >= 300
IsErrorStatus(st) == st < 200 \/ st >= 300

\* dec.More() with k elements consumed
More(body, k) == k < BodyLen(body) /\ BodyAt(body, k + 1).t # "close"

\* json.NewDecoder(resp.Body).Decode(&v) of the first element of a body
DecodeOne(body, type) ==
    IF BodyLen(body) = 0 THEN [res |-> NilRes, err |-> [kind |-> "EOF"]]
    ELSE IF BodyAt(body, 1).t # "obj"
    THEN [res |-> NilRes, err |-> [kind |-> "json: cannot decode"]]
    ELSE [res |-> [kind |-> type, value |-> BodyAt(body, 1).status], err |-> NilErr]

ResultTypeOf(o) ==
    CASE o = "Generate"       -> "PromptResult"
      [] o = "Embed"          -> "EmbedResult"
      [] o = "FetchModelInfo" -> "ModelInfoResult"
      [] o = "Version"        -> "Version"
      [] o = "ListModels"     -> "ModelList"
      [] o = "ProcessStatus"  -> "ModelProcessStatus"
      [] o = "PullModel"      -> "PullModelResult"
      [] o = "PushModel"      -> "PushModelResult"
      [] o = "CopyModel"      -> "CopyModelResult"
      [] o = "DeleteModel"    -> "DeleteModelResult"
      [] o = "CreateModel"    -> "CreateModelResult"
      [] OTHER                -> "none"

Bool(b) == [kind |-> "bool", value |-> b]

\* the zero value an operation returns beside an error
ZeroRes(o) == IF o = "CheckBlobExists" THEN Bool(FALSE) ELSE NilRes

Failed(o, e) == [res |-> ZeroRes(o), err |-> e]

\* sendRequest after HTTPClient.Do returned a response
SendRequestResult(o, r) ==
    IF IsErrorStatus(r.status)
    THEN Failed(o, [kind |-> "HTTP request failed", status |-> r.status,
                    text |-> ReadAll(r.body)])
    ELSE DecodeOne(r.body, ResultTypeOf(o))

\* sendShowRequest, sendEmbedRequest, Version, ListModels, ProcessStatus after
\* HTTPClient.Do returned a response
DecodeOnlyResult(o, r) == DecodeOne(r.body, ResultTypeOf(o))

\* CheckBlobResult with a fault: every 2xx status counts as found
CheckBlobResultAny2xx(r) ==
    CASE ~IsErrorStatus(r.status)  -> [res |-> Bool(TRUE), err |-> NilErr]
      [] r.status = StatusNotFound -> [res |-> Bool(FALSE), err |-> NilErr]
      [] OTHER -> [res |-> Bool(FALSE),
                   err |-> [kind |-> "unexpected status code", status |-> r.status]]

\* CheckBlobExists after HTTPClient.Do returned a response
CheckBlobResult(r) ==
    CASE r.status = StatusOK       -> [res |-> Bool(TRUE), err |-> NilErr]
      [] r.status = StatusNotFound -> [res |-> Bool(FALSE), err |-> NilErr]
      [] OTHER -> [res |-> Bool(FALSE),
                   err |-> [kind |-> "unexpected status code", status |-> r.status]]

\* PushBlobResult with a fault: every 2xx status counts as pushed
PushBlobResultAny2xx(r) ==
    IF IsErrorStatus(r.status)
    THEN [res |-> NilRes, err |-> [kind |-> "failed to push blob", text |-> ReadAll(r.body)]]
    ELSE [res |-> NilRes, err |-> NilErr]

\* PushBlob after HTTPClient.Do returned a response
PushBlobResult(r) ==
    IF r.status # StatusCreated
    THEN [res |-> NilRes, err |-> [kind |-> "failed to push blob", text |-> ReadAll(r.body)]]
    ELSE [res |-> NilRes, err |-> NilErr]

\* sendStatusStreamRequest on an error status
StreamErrorResult(o, r) ==
    Failed(o, [kind |-> "HTTP request failed", status |-> r.status,
               text |-> ReadLimited(r.body)])

\* what an operation that decodes no stream returns for response r
ResultOf(o, r) ==
    CASE o = "Generate"        -> SendRequestResult(o, r)
      [] o = "CheckBlobExists" -> CheckBlobResult(r)
      [] o = "PushBlob"        -> PushBlobResult(r)
      [] OTHER                 -> DecodeOnlyResult(o, r)

(***************************************************************************)
(* The state machine.                                                      *)
(***************************************************************************)
NoReq  == [kind |-> "nil"]
NoResp == [kind |-> "none", status |-> 0, body |-> EmptyBody]
NoRet  == [res |-> NilRes, err |-> NilErr]

Init ==
    /\ \E b \in BaseURLs :
          /\ client = NewClient([ok |-> TRUE, url |-> b], Dur(ExampleMinutes)).client
          /\ made = Made([ok |-> TRUE, url |-> b], Dur(ExampleMinutes))
    /\ used = FALSE
    /\ pc   = [p \in Calls |-> "idle"]
    /\ op   = [p \in Calls |-> "none"]
    /\ args = [p \in Calls |-> NoArgs]
    /\ req  = [p \in Calls |-> NoReq]
    /\ nreq = [p \in Calls |-> 0]
    /\ resp = [p \in Calls |-> NoResp]
    /\ pos  = [p \in Calls |-> 0]
    /\ msgs = [p \in Calls |-> <<>>]
    /\ ret  = [p \in Calls |-> NoRet]

\* the error an operation returns before it sends anything, or NilErr: its own
\* check of the arguments, then the helper's encoding of the payload, then
\* http.NewRequestWithContext
PrepareErr(c, o, a) ==
    IF LocalCheck(o, a).kind # "nil" THEN LocalCheck(o, a)
    ELSE IF EncodeErr(o, a).kind # "nil" THEN EncodeErr(o, a)
    ELSE IF NewRequest(c, o, a).kind = "nil" THEN [kind |-> "net/http: nil Context"]
    ELSE NilErr

\* Call with a fault: the resolved URL is stored in the Client
CallStoringURL(p, o, a) ==
    /\ op'   = [op EXCEPT ![p] = o]
    /\ args' = [args EXCEPT ![p] = a]
    /\ IF PrepareErr(client, o, a).kind # "nil"
       THEN /\ pc'  = [pc EXCEPT ![p] = "done"]
            /\ ret' = [ret EXCEPT ![p] = Failed(o, PrepareErr(client, o, a))]
            /\ UNCHANGED req
       ELSE /\ pc'  = [pc EXCEPT ![p] = "ready"]
            /\ req' = [req EXCEPT ![p] = NewRequest(client, o, a)]
            /\ UNCHANGED ret
    /\ client' = [client EXCEPT !.BaseURL = ResolveReference(client.BaseURL, RelPath(o, a))]
    /\ UNCHANGED <<made, used, nreq, resp, pos, msgs>>

\* A method is called with arguments a: everything up to, and without,
\* c.HTTPClient.Do(req).
Call(p, o, a) ==
    /\ op'   = [op EXCEPT ![p] = o]
    /\ args' = [args EXCEPT ![p] = a]
    /\ IF PrepareErr(client, o, a).kind # "nil"
       THEN /\ pc'  = [pc EXCEPT ![p] = "done"]
            /\ ret' = [ret EXCEPT ![p] = Failed(o, PrepareErr(client, o, a))]
            /\ UNCHANGED req
       ELSE /\ pc'  = [pc EXCEPT ![p] = "ready"]
            /\ req' = [req EXCEPT ![p] = NewRequest(client, o, a)]
            /\ UNCHANGED ret
    /\ UNCHANGED <<clientVars, nreq, resp, pos, msgs>>

Invoke(p) ==
    /\ pc[p] = "idle"
    /\ \E o \in Ops : \E a \in ArgsOf(o) : Call(p, o, a)

\* resp, err := c.HTTPClient.Do(req): the request leaves.
Do(p) ==
    /\ pc[p] = "ready"
    /\ pc'   = [pc EXCEPT ![p] = "inflight"]
    /\ nreq' = [nreq EXCEPT ![p] = @ + 1]
    /\ UNCHANGED <<clientVars, op, args, req, resp, pos, msgs, ret>>

\* AfterDo with a fault: a transport error sends the request again
AfterDoRetry(p, r) ==
    IF r.kind = "transport"
    THEN /\ pc' = [pc EXCEPT ![p] = "ready"]
         /\ UNCHANGED ret
    ELSE IF op[p] \notin StreamOps
    THEN /\ pc'  = [pc EXCEPT ![p] = "done"]
         /\ ret' = [ret EXCEPT ![p] = ResultOf(op[p], r)]
    ELSE IF IsErrorStatus(r.status)
    THEN /\ pc'  = [pc EXCEPT ![p] = "done"]
         /\ ret' = [ret EXCEPT ![p] = StreamErrorResult(op[p], r)]
    ELSE /\ pc'  = [pc EXCEPT ![p] = "decoding"]
         /\ UNCHANGED ret

\* what the code does once HTTPClient.Do has returned r, up to its return or to
\* the start of the decode loop
AfterDo(p, r) ==
    IF r.kind = "transport"
    THEN /\ pc'  = [pc EXCEPT ![p] = "done"]
         /\ ret' = [ret EXCEPT ![p] = Failed(op[p], [kind |-> "transport"])]
    ELSE IF op[p] \notin StreamOps
    THEN /\ pc'  = [pc EXCEPT ![p] = "done"]
         /\ ret' = [ret EXCEPT ![p] = ResultOf(op[p], r)]
    ELSE IF IsErrorStatus(r.status)
    THEN /\ pc'  = [pc EXCEPT ![p] = "done"]
         /\ ret' = [ret EXCEPT ![p] = StreamErrorResult(op[p], r)]
    ELSE /\ pc'  = [pc EXCEPT ![p] = "decoding"]
         /\ UNCHANGED ret

\* HTTPClient.Do returns.
Respond(p) ==
    /\ pc[p] = "inflight"
    /\ \E r \in Responses(op[p]) :
          /\ resp' = [resp EXCEPT ![p] = r]
          /\ AfterDo(p, r)
    /\ UNCHANGED <<clientVars, op, args, req, nreq, pos, msgs>>

\* the condition of the decode loop
LoopCond(body, k, m) == More(body, k) /\ Len(m) < maxMessages

\* DecodeStep with a fault: msgs is one slice that all calls append to
DecodeStepShared(p) ==
    /\ pc[p] = "decoding"
    /\ LoopCond(resp[p].body, pos[p], msgs[p])
    /\ LET tok == BodyAt(resp[p].body, pos[p] + 1)
       IN  IF tok.t # "obj"
           THEN /\ pc'  = [pc EXCEPT ![p] = "done"]
                /\ ret' = [ret EXCEPT ![p] = Failed(op[p], [kind |-> "error decoding stream"])]
                /\ UNCHANGED <<pos, msgs>>
           ELSE /\ pos'  = [pos EXCEPT ![p] = @ + 1]
                /\ msgs' = [q \in Calls |-> Append(msgs[q], tok.status)]
                /\ UNCHANGED <<pc, ret>>
    /\ UNCHANGED <<clientVars, op, args, req, nreq, resp>>

\* One turn of the loop of sendStatusStreamRequest: dec.Decode(&s), then the
\* return on its error or msgs = append(msgs, s.Status).
DecodeStep(p) ==
    /\ pc[p] = "decoding"
    /\ LoopCond(resp[p].body, pos[p], msgs[p])
    /\ LET tok == BodyAt(resp[p].body, pos[p] + 1)
       IN  IF tok.t # "obj"
           THEN /\ pc'  = [pc EXCEPT ![p] = "done"]
                /\ ret' = [ret EXCEPT ![p] = Failed(op[p], [kind |-> "error decoding stream"])]
                /\ UNCHANGED <<pos, msgs>>
           ELSE /\ pos'  = [pos EXCEPT ![p] = @ + 1]
                /\ msgs' = [msgs EXCEPT ![p] = Append(@, tok.status)]
                /\ UNCHANGED <<pc, ret>>
    /\ UNCHANGED <<clientVars, op, args, req, nreq, resp>>

\* Exceeded with a fault: the limit is taken one too low
ExceededEarly(m) == Len(m) >= maxMessages - 1

\* Exceeded with a fault: > for >=
ExceededStrict(m) == Len(m) > maxMessages

\* the test after the loop
Exceeded(m) == Len(m) >= maxMessages

\* what sendStatusStreamRequest and the operation that called it return after
\* the loop
StreamResult(o, m) ==
    IF Exceeded(m)
    THEN Failed(o, [kind |-> "streaming response exceeded maximum allowed messages"])
    ELSE [res |-> [kind |-> ResultTypeOf(o), StatusMessages |-> m], err |-> NilErr]

\* The loop is left: the test of len(msgs) and the return.
FinishStream(p) ==
    /\ pc[p] = "decoding"
    /\ ~LoopCond(resp[p].body, pos[p], msgs[p])
    /\ pc'  = [pc EXCEPT ![p] = "done"]
    /\ ret' = [ret EXCEPT ![p] = StreamResult(op[p], msgs[p])]
    /\ UNCHANGED <<clientVars, op, args, req, nreq, resp, pos, msgs>>

\* The caller has the returned values; the locals of the call are gone.
Return(p) ==
    /\ pc[p] = "done"
    /\ pc'   = [pc EXCEPT ![p] = "idle"]
    /\ op'   = [op EXCEPT ![p] = "none"]
    /\ args' = [args EXCEPT ![p] = NoArgs]
    /\ req'  = [req EXCEPT ![p] = NoReq]
    /\ nreq' = [nreq EXCEPT ![p] = 0]
    /\ resp' = [resp EXCEPT ![p] = NoResp]
    /\ pos'  = [pos EXCEPT ![p] = 0]
    /\ msgs' = [msgs EXCEPT ![p] = <<>>]
    /\ ret'  = [ret EXCEPT ![p] = NoRet]
    /\ used' = TRUE
    /\ UNCHANGED <<client, made>>

\* the calls that run, one after the other, in Spec
SeqCalls == {1}

Next ==
    \E p \in SeqCalls :
        \/ Invoke(p)
        \/ Do(p)
        \/ Respond(p)
        \/ DecodeStep(p)
        \/ FinishStream(p)
        \/ Return(p)

Spec == Init /\ [][Next]_vars

(***************************************************************************)
(* Two calls at once on one Client, as from two goroutines: every step of  *)
(* one may fall between two steps of the other.  The arguments and the     *)
(* responses are few, so that every interleaving is gone through.          *)
(***************************************************************************)
ConcArgs(o) ==
    {a \in ArgsOf(o) :
        /\ a.ctx /\ a.encodable /\ a.dest = NoArgs.dest
        /\ a.format = NoArgs.format /\ a.context = NoArgs.context
        /\ a.digest \in {<<>>, <<"a">>}}

ConcBodies ==
    {EmptyBody, [head |-> <<Bad>>, run |-> 0]}
    \cup {[head |-> <<Obj(1), Obj(2)>>, run |-> 0], [head |-> <<Obj(2), Obj(1)>>, run |-> 0]}

ConcResponses(o) ==
    {r \in Responses(o) :
        \/ r.kind = "transport"
        \/ r.status \in {StatusOK, 500} /\ r.body \in ConcBodies}

ConcInvoke(p) ==
    /\ pc[p] = "idle"
    /\ \E o \in Ops : \E a \in ConcArgs(o) : Call(p, o, a)

ConcRespond(p) ==
    /\ pc[p] = "inflight"
    /\ \E r \in ConcResponses(op[p]) :
          /\ resp' = [resp EXCEPT ![p] = r]
          /\ AfterDo(p, r)
    /\ UNCHANGED <<clientVars, op, args, req, nreq, pos, msgs>>

NextConc ==
    \E p \in Calls :
        \/ ConcInvoke(p)
        \/ Do(p)
        \/ ConcRespond(p)
        \/ DecodeStep(p)
        \/ FinishStream(p)
        \/ Return(p)

SpecConc == Init /\ [][NextConc]_vars

(***************************************************************************)
(* The construction of a Client, on its own.                               *)
(***************************************************************************)
\* the largest int64
MaxInt64 == [i \in 1..DurationBytes |-> IF i = DurationBytes THEN Radix \div 2 - 1 ELSE Radix - 1]

\* the minutes NewClient is given: small numbers, the numbers around
\* 153722867 = (2^63 - 1) \div (60 * 10^9), and the largest int64
MinutesGiven ==
    {Dur(k) : k \in 0..MaxSmallMinutes}
    \cup {Dur(153722867 + d) : d \in (0 - EdgeWidth)..EdgeWidth}
    \cup {MaxInt64}

NotMade == [baseURL |-> [ok |-> FALSE, url |-> NoURL], minutes |-> Dur(0), err |-> NilErr]

InitNewClient ==
    /\ client = NoClient
    /\ made = NotMade
    /\ used = FALSE
    /\ pc   = [p \in Calls |-> "idle"]
    /\ op   = [p \in Calls |-> "none"]
    /\ args = [p \in Calls |-> NoArgs]
    /\ req  = [p \in Calls |-> NoReq]
    /\ nreq = [p \in Calls |-> 0]
    /\ resp = [p \in Calls |-> NoResp]
    /\ pos  = [p \in Calls |-> 0]
    /\ msgs = [p \in Calls |-> <<>>]
    /\ ret  = [p \in Calls |-> NoRet]

\* NewClient(baseURL, minutes) is called.
MakeClient ==
    /\ made = NotMade
    /\ \E raw \in RawURLs : \E n \in MinutesGiven :
          /\ client' = NewClient(raw, n).client
          /\ made' = Made(raw, n)
    /\ UNCHANGED <<used, pc, op, args, req, nreq, resp, pos, msgs, ret>>

NextNewClient == MakeClient

SpecNewClient == InitNewClient /\ [][NextNewClient]_vars

(***************************************************************************)
(* Properties.                                                             *)
(***************************************************************************)
\* the response call p received is a response (no transport error)
GotResponse(p) == resp[p].kind = "response"

\* the first n elements of a body are well-formed status objects
AllObjects(body, n) == \A i \in 1..n : BodyAt(body, i).t = "obj"

\* the statuses of the first n elements of a body, in the order received
StatusesOf(body, n) == [i \in 1..n |-> BodyAt(body, i).status]

\* a status-stream operation has returned after a 2xx response
StreamReturned(p) ==
    /\ pc[p] = "done"
    /\ op[p] \in StreamOps
    /\ GotResponse(p)
    /\ resp[p].status >= 200 /\ resp[p].status < 300

\* the arguments pass the operation's own check, the payload encodes and the
\* request is built
CanSend(o, a) ==
    /\ o = "Generate" => ValidatePromptInfo(a).kind = "nil"
    /\ o = "CheckBlobExists" => ~Contains(a.digest, <<"/">>) /\ ~Contains(a.digest, <<".", ".">>)
    /\ o \in StreamOps \cup JsonOps => a.encodable
    /\ a.ctx

\* C1: a call hands at most one request to HTTPClient.Do: exactly one once it
\* is past its local checks with a request built, none when it returned before
\* (Generate's validation, CheckBlobExists's digest check, an encoding or
\* request construction failure); whatever comes back, no second request leaves.
C1_AtMostOneRequest ==
    \A p \in Calls :
        /\ nreq[p] <= 1
        /\ pc[p] \in {"inflight", "decoding"} => nreq[p] = 1
        /\ pc[p] = "ready" => nreq[p] = 0
        /\ pc[p] = "done" => nreq[p] = IF CanSend(op[p], args[p]) THEN 1 ELSE 0

\* a call returned an error after a server error, having sent one request
C1_Witness ==
    \E p \in Calls :
        /\ pc[p] = "done" /\ nreq[p] = 1
        /\ GotResponse(p) /\ resp[p].status = 500
        /\ ret[p].err.kind # "nil"

\* C2: after a 2xx response whose body is N well-formed status objects, N below
\* maxMessages, a status-stream operation returns a nil error and a result whose
\* StatusMessages are the N statuses in the order received.
C2_StreamDecoded ==
    \A p \in Calls :
        LET body == resp[p].body
        IN  (StreamReturned(p) /\ BodyLen(body) < maxMessages /\ AllObjects(body, BodyLen(body)))
            => /\ ret[p].err.kind = "nil"
               /\ ret[p].res.kind = ResultTypeOf(op[p])
               /\ ret[p].res.StatusMessages = StatusesOf(body, BodyLen(body))

\* a stream of maxMessages - 1 objects was decoded
C2_Witness ==
    \E p \in Calls :
        /\ StreamReturned(p)
        /\ BodyLen(resp[p].body) = maxMessages - 1
        /\ AllObjects(resp[p].body, BodyLen(resp[p].body))
        /\ ret[p].err.kind = "nil"

\* C3: msgs never holds more than maxMessages entries, and after a 2xx response
\* that carries more than maxMessages status objects a status-stream operation
\* returns a nil result and the error "streaming response exceeded maximum
\* allowed messages".
C3_StreamBounded ==
    \A p \in Calls :
        /\ Len(msgs[p]) <= maxMessages
        /\ (StreamReturned(p) /\ BodyLen(resp[p].body) > maxMessages
                /\ AllObjects(resp[p].body, maxMessages + 1))
           => /\ ret[p].res.kind = "nil"
              /\ ret[p].err.kind = "streaming response exceeded maximum allowed messages"

\* a stream of more than maxMessages objects was refused
C3_Witness ==
    \E p \in Calls :
        /\ StreamReturned(p)
        /\ BodyLen(resp[p].body) > maxMessages
        /\ Len(msgs[p]) = maxMessages
        /\ ret[p].err.kind = "streaming response exceeded maximum allowed messages"

\* C4: a 2xx stream of N well-formed status objects with N not above maxMessages
\* (N = maxMessages included) succeeds and returns all N messages.
C4_LimitInclusive ==
    \A p \in Calls :
        LET body == resp[p].body
        IN  (StreamReturned(p) /\ BodyLen(body) <= maxMessages /\ AllObjects(body, BodyLen(body)))
            => /\ ret[p].err.kind = "nil"
               /\ ret[p].res.kind = ResultTypeOf(op[p])
               /\ ret[p].res.StatusMessages = StatusesOf(body, BodyLen(body))

\* C5: after a response with an error status a status-stream operation returns
\* a nil result and an error that holds the status code and the first 512 bytes
\* of the body (the whole body when it is shorter), and has decoded nothing.
C5_StreamErrorStatus ==
    \A p \in Calls :
        (/\ pc[p] = "done" /\ op[p] \in StreamOps /\ GotResponse(p)
         /\ (resp[p].status < 200 \/ resp[p].status >= 300))
        => LET n == Min(ByteLen(resp[p].body), 512)
           IN  /\ ret[p].res.kind = "nil"
               /\ ret[p].err.kind = "HTTP request failed"
               /\ ret[p].err.status = resp[p].status
               /\ ret[p].err.text = BytePrefix(resp[p].body, n)
               /\ Len(ret[p].err.text.toks) * TokBytes + ret[p].err.text.rem <= 512
               /\ msgs[p] = <<>> /\ pos[p] = 0

\* an error response with a body longer than 512 bytes was reported
C5_Witness ==
    \E p \in Calls :
        /\ pc[p] = "done" /\ op[p] \in StreamOps /\ GotResponse(p)
        /\ resp[p].status = 500
        /\ ByteLen(resp[p].body) > 512
        /\ ret[p].err.kind = "HTTP request failed"

\* call p runs, or has run, Generate
InGenerate(p) == op[p] = "Generate" /\ pc[p] # "idle"

\* the request is a POST to /api/generate
IsGeneratePost(r) ==
    r.kind = "request" /\ r.method = "POST" /\ r.url.path = <<<<"api">>, <<"generate">>>>

\* C6 as stated: Generate returns the validation error with nothing sent when
\* ValidatePromptInfo fails, and sends exactly one POST to /api/generate when
\* it passes.
C6_ValidatedThenSent ==
    \A p \in Calls :
        InGenerate(p) =>
            LET v == ValidatePromptInfo(args[p])
            IN  /\ v.kind # "nil" =>
                     /\ pc[p] = "done" /\ nreq[p] = 0 /\ req[p].kind = "nil"
                     /\ ret[p].res.kind = "nil" /\ ret[p].err = v
                /\ (v.kind = "nil" /\ pc[p] = "done") =>
                     nreq[p] = 1 /\ IsGeneratePost(req[p])

\* C6 amended: Generate returns the validation error with nothing sent when
\* ValidatePromptInfo fails; when it passes and the request is built (the
\* PromptInfo encodes as JSON, the context is not nil) exactly one request is
\* sent, a POST to /api/generate; and a request is only ever sent for a
\* PromptInfo that passed validation.
C6_ValidatedThenSentIfBuilt ==
    \A p \in Calls :
        InGenerate(p) =>
            LET v == ValidatePromptInfo(args[p])
                built == args[p].encodable /\ args[p].ctx
            IN  /\ v.kind # "nil" =>
                     /\ pc[p] = "done" /\ nreq[p] = 0 /\ req[p].kind = "nil"
                     /\ ret[p].res.kind = "nil" /\ ret[p].err = v
                /\ (v.kind = "nil" /\ built /\ pc[p] = "done") =>
                     nreq[p] = 1 /\ IsGeneratePost(req[p])
                /\ (v.kind = "nil" /\ ~built) =>
                     pc[p] = "done" /\ nreq[p] = 0 /\ ret[p].err.kind # "nil"
                /\ nreq[p] > 0 => v.kind = "nil" /\ IsGeneratePost(req[p])

\* Generate returned a validation error, nothing sent
C6_Witness ==
    \E p \in Calls :
        /\ InGenerate(p) /\ pc[p] = "done" /\ nreq[p] = 0
        /\ args[p].encodable /\ args[p].ctx
        /\ ret[p].err.kind = "invalid type for Context at index"

\* Generate has returned before it built a request
GenerateRefused(p) == InGenerate(p) /\ pc[p] = "done" /\ nreq[p] = 0

\* C7: ValidatePromptInfo accepts Format exactly when it is nil, a string or a
\* map[string]interface{}; for any other type the error is "invalid type for
\* Format field", whatever Context holds.
C7_FormatChecked ==
    \A p \in Calls :
        InGenerate(p) =>
            IF args[p].format \in {"nil", "string", "map"}
            THEN ret[p].err.kind # "invalid type for Format field"
            ELSE GenerateRefused(p) /\ ret[p].err = [kind |-> "invalid type for Format field"]

\* Format and Context were both invalid and the Format error came back
C7_Witness ==
    \E p \in Calls :
        /\ GenerateRefused(p)
        /\ args[p].format = "int"
        /\ args[p].context.type = "ifaces" /\ args[p].context.elems = <<"string">>
        /\ ret[p].err.kind = "invalid type for Format field"

ContextErrKinds == {"invalid type for Context at index", "invalid type for Context field"}

\* C8: with a valid Format, ValidatePromptInfo accepts Context exactly when it
\* is nil, a []int, or a []interface{} of ints only; a []interface{} with an
\* element that is no int gives the error naming the smallest index of such an
\* element, any other type the error "invalid type for Context field".
C8_ContextChecked ==
    \A p \in Calls :
        (InGenerate(p) /\ args[p].format \in {"nil", "string", "map"}) =>
            LET c == args[p].context
                e == ret[p].err
            IN  CASE c.type \in {"nil", "ints"} -> e.kind \notin ContextErrKinds
                  [] c.type = "ifaces" /\ (\A i \in 1..Len(c.elems) : c.elems[i] = "int") ->
                       e.kind \notin ContextErrKinds
                  [] c.type = "ifaces" /\ (\E i \in 1..Len(c.elems) : c.elems[i] # "int") ->
                       /\ GenerateRefused(p)
                       /\ e.kind = "invalid type for Context at index"
                       /\ c.elems[e.idx + 1] # "int"
                       /\ \A j \in 1..e.idx : c.elems[j] = "int"
                  [] OTHER ->
                       GenerateRefused(p) /\ e = [kind |-> "invalid type for Context field"]

\* a Context with two elements that are no ints was refused at index 0
C8_Witness ==
    \E p \in Calls :
        /\ GenerateRefused(p)
        /\ args[p].context.elems = <<"string", "string">>
        /\ ret[p].err.kind = "invalid type for Context at index"
        /\ ret[p].err.idx = 0

\* CheckBlobExists has returned after a response
BlobChecked(p) == op[p] = "CheckBlobExists" /\ pc[p] = "done" /\ GotResponse(p)

\* C9: after a response, CheckBlobExists returns (true, nil) exactly for status
\* 200, (false, nil) exactly for 404, and false with the error "unexpected
\* status code" for every other status; it never returns true with an error.
C9_BlobStatus ==
    \A p \in Calls :
        /\ BlobChecked(p) =>
             /\ resp[p].status = 200 => ret[p] = [res |-> Bool(TRUE), err |-> NilErr]
             /\ resp[p].status = 404 => ret[p] = [res |-> Bool(FALSE), err |-> NilErr]
             /\ resp[p].status \notin {200, 404} =>
                  /\ ret[p].res = Bool(FALSE)
                  /\ ret[p].err = [kind |-> "unexpected status code", status |-> resp[p].status]
        /\ (op[p] = "CheckBlobExists" /\ pc[p] = "done") =>
             ~(ret[p].res = Bool(TRUE) /\ ret[p].err.kind # "nil")

\* a 2xx status other than 200 was reported as unexpected
C9_Witness ==
    \E p \in Calls :
        /\ BlobChecked(p) /\ resp[p].status = 201
        /\ ret[p].res = Bool(FALSE) /\ ret[p].err.kind = "unexpected status code"

\* the digest holds "/" or ".."
HoldsSlashOrDotDot(d) ==
    \/ \E i \in 1..Len(d) : d[i] = "/"
    \/ \E i \in 1..(Len(d) - 1) : d[i] = "." /\ d[i + 1] = "."

\* C10: called with a digest that holds "/" or "..", CheckBlobExists returns
\* (false, "invalid digest") and sends no request.
C10_InvalidDigestRefused ==
    \A p \in Calls :
        (op[p] = "CheckBlobExists" /\ pc[p] # "idle" /\ HoldsSlashOrDotDot(args[p].digest)) =>
            /\ pc[p] = "done" /\ nreq[p] = 0 /\ req[p].kind = "nil"
            /\ ret[p].res = Bool(FALSE)
            /\ ret[p].err = [kind |-> "invalid digest", digest |-> args[p].digest]

\* the digest ".." was refused
C10_Witness ==
    \E p \in Calls :
        /\ op[p] = "CheckBlobExists" /\ pc[p] = "done"
        /\ args[p].digest = <<".", ".">> /\ args[p].ctx
        /\ ret[p].err.kind = "invalid digest" /\ nreq[p] = 0

\* PushBlob has returned after its request was sent
BlobPushed(p) == op[p] = "PushBlob" /\ pc[p] = "done" /\ nreq[p] = 1

\* C11: PushBlob returns nil exactly when the response has status 201; for any
\* other status it returns the error "failed to push blob" with the whole body
\* of the response; a transport error comes back as it is.
C11_PushBlobCreatedOnly ==
    \A p \in Calls :
        BlobPushed(p) =>
            /\ (ret[p].err.kind = "nil") <=> (GotResponse(p) /\ resp[p].status = 201)
            /\ (GotResponse(p) /\ resp[p].status # 201) =>
                 ret[p].err = [kind |-> "failed to push blob",
                               text |-> BytePrefix(resp[p].body, ByteLen(resp[p].body))]
            /\ ~GotResponse(p) => ret[p].err = [kind |-> "transport"]

\* status 200 with a body was reported as a failure
C11_Witness ==
    \E p \in Calls :
        /\ BlobPushed(p) /\ GotResponse(p)
        /\ resp[p].status = 200 /\ BodyLen(resp[p].body) = 2
        /\ ret[p].err.kind = "failed to push blob"

\* C12: Embed never returns a non-nil EmbedResult with a nil error for a
\* response whose status is not 2xx.
C12_EmbedErrorStatus ==
    \A p \in Calls :
        (/\ op[p] = "Embed" /\ pc[p] = "done" /\ GotResponse(p)
         /\ (resp[p].status < 200 \/ resp[p].status >= 300))
        => ~(ret[p].res.kind # "nil" /\ ret[p].err.kind = "nil")

\* n * 60 * 10^9 in 128 bits: wide enough for the product of two int64
NanosOfMinutes(n) ==
    LET wide == 2 * DurationBytes
        thousand == Digits(1000, wide)
        perSecond == MulFrom(thousand, MulFrom(thousand, thousand, 1, 0, wide), 1, 0, wide)
        perMinute == MulFrom(Digits(60, wide), perSecond, 1, 0, wide)
    IN  MulFrom(n, perMinute, 1, 0, wide)

\* the int64 t is the non-negative number w
SameNumber(t, w) ==
    /\ t[DurationBytes] < Radix \div 2
    /\ \A i \in 1..Len(w) : w[i] = IF i <= DurationBytes THEN t[i] ELSE 0

\* a <= b for two non-negative int64
RECURSIVE LeqFrom(_, _, _)
LeqFrom(a, b, i) ==
    IF i = 0 THEN TRUE
    ELSE IF a[i] # b[i] THEN a[i] < b[i]
    ELSE LeqFrom(a, b, i - 1)

Leq(a, b) == LeqFrom(a, b, DurationBytes)

\* NewClient returned a Client
ClientMade == made # NotMade /\ made.baseURL.ok

StatedMethod(o) ==
    CASE o \in {"Version", "ListModels", "ProcessStatus"} -> "GET"
      [] o = "CheckBlobExists" -> "HEAD"
      [] OTHER -> "POST"

\* the path each operation is said to ask for: /api/<name>, and
\* /api/blobs/ followed by the digest for the two blob operations
StatedPath(o, a) ==
    CASE o = "PullModel"      -> <<<<"api">>, <<"pull">>>>
      [] o = "PushModel"      -> <<<<"api">>, <<"push">>>>
      [] o = "CopyModel"      -> <<<<"api">>, <<"copy">>>>
      [] o = "DeleteModel"    -> <<<<"api">>, <<"delete">>>>
      [] o = "CreateModel"    -> <<<<"api">>, <<"create">>>>
      [] o = "Generate"       -> <<<<"api">>, <<"generate">>>>
      [] o = "Embed"          -> <<<<"api">>, <<"embed">>>>
      [] o = "FetchModelInfo" -> <<<<"api">>, <<"show">>>>
      [] o = "Version"        -> <<<<"api">>, <<"version">>>>
      [] o = "ListModels"     -> <<<<"api">>, <<"tags">>>>
      [] o = "ProcessStatus"  -> <<<<"api">>, <<"ps">>>>
      [] o \in {"CheckBlobExists", "PushBlob"} ->
             <<<<"api">>, <<"blobs">>>> \o Split(a.digest)

\* C14: every request an operation builds has the operation's method and
\* asks for the operation's path; for the two blob operations the path is
\* /api/blobs/ followed by the digest.
C14_FixedEndpoint ==
    \A p \in Calls :
        req[p].kind = "request" =>
            /\ req[p].method = StatedMethod(op[p])
            /\ UnescapePath(req[p].url.path) = StatedPath(op[p], args[p])

\* C16: the decode loop stops at one of three places: after exactly
\* maxMessages objects of a stream that goes on beyond them, with the error
\* "exceeded maximum"; at the end of the input; or at the first decode error.
C16_StopsAtEndOrError ==
    \A p \in Calls :
        StreamReturned(p) =>
            LET body == resp[p].body
            IN  \/ /\ BodyLen(body) > maxMessages
                   /\ pos[p] = maxMessages /\ Len(msgs[p]) = maxMessages
                   /\ ret[p].err.kind = "streaming response exceeded maximum allowed messages"
                \/ pos[p] = BodyLen(body)
                \/ /\ ret[p].err.kind = "error decoding stream"
                   /\ AllObjects(body, pos[p])
                   /\ BodyAt(body, pos[p] + 1).t # "obj"

\* the Client as NewClient returned it
FreshClient == NewClient(made.baseURL, made.minutes).client

\* the number of elements at the head of a body that are well-formed objects
Wellformed(body) ==
    LET stops == {i \in 1..Len(body.head) : body.head[i].t # "obj"}
    IN  IF stops = {} THEN BodyLen(body)
        ELSE (CHOOSE i \in stops : \A j \in stops : i <= j) - 1

\* what a status-stream operation returns for a 2xx response with this body
StreamReturn(o, body) ==
    LET k == Min(Wellformed(body), maxMessages)
    IN  IF k < maxMessages /\ k < BodyLen(body) /\ BodyAt(body, k + 1).t = "bad"
        THEN Failed(o, [kind |-> "error decoding stream"])
        ELSE StreamResult(o, StatusesOf(body, k))

\* what operation o with arguments a returns on Client c when HTTPClient.Do,
\* if it is reached, returns r
ReturnOf(c, o, a, r) ==
    IF PrepareErr(c, o, a).kind # "nil" THEN Failed(o, PrepareErr(c, o, a))
    ELSE IF r.kind = "transport" THEN Failed(o, [kind |-> "transport"])
    ELSE IF o \notin StreamOps THEN ResultOf(o, r)
    ELSE IF IsErrorStatus(r.status) THEN StreamErrorResult(o, r)
    ELSE StreamReturn(o, r.body)

\* call p built its request and got its result as on Client c
AsOn(c, p) ==
    /\ req[p].kind = "request" => req[p] = NewRequest(c, op[p], args[p])
    /\ pc[p] = "done" => ret[p] = ReturnOf(c, op[p], args[p], resp[p])

\* C15: no operation changes the Client, and whatever operations ran on it
\* before, an operation builds the request and returns the result it would
\* on the Client as NewClient returned it.
C15_Stateless ==
    /\ [](client = FreshClient /\ \A p \in Calls : AsOn(client, p))
    /\ [][client' = client]_vars

\* on a Client used before, a stream was decoded and a request was refused
C15_Witness ==
    \E p \in Calls :
        /\ used /\ pc[p] = "done" /\ client = FreshClient
        /\ op[p] \in StreamOps /\ GotResponse(p)
        /\ ret[p].err.kind = "nil" /\ Len(ret[p].res.StatusMessages) = 2

\* C17: with two calls running at once on one Client, each call hands its own
\* request to HTTPClient.Do once, decodes its own response only, and returns
\* what it would return running alone with that response.
C17_NoInterference ==
    \A p \in Calls :
        /\ nreq[p] <= 1
        /\ pc[p] \in {"inflight", "decoding"} =>
              nreq[p] = 1 /\ req[p] = NewRequest(client, op[p], args[p])
        /\ pc[p] = "decoding" =>
              pos[p] <= BodyLen(resp[p].body) /\ msgs[p] = StatusesOf(resp[p].body, pos[p])
        /\ pc[p] = "done" => ret[p] = ReturnOf(client, op[p], args[p], resp[p])

\* one call is in the middle of its stream while the other, with another
\* operation and another response, has its result
C17_Witness ==
    \E p, q \in Calls :
        /\ p # q /\ op[p] # op[q]
        /\ pc[p] = "done" /\ op[p] \in StreamOps /\ GotResponse(p)
        /\ ret[p].err.kind = "nil" /\ ret[p].res.StatusMessages = <<1, 2>>
        /\ pc[q] = "decoding" /\ msgs[q] = <<2>> /\ BodyLen(resp[q].body) = 2

====
